---- MODULE Spec2Model ----
(***************************************************************************)
(* A model of ConvertTextNHKNews.py: the ranking-page URL extraction, the  *)
(* article extraction, the text file writer and the module-level           *)
(* try/except/finally that sequences them around one browser session.      *)
(*                                                                         *)
(* Strings are sequences of characters.  The characters that matter to the *)
(* code are named: TOUTEN is the full-width comma, KUTEN the full-width    *)
(* period, LF the newline, EKI and DEN the two characters of the keyword   *)
(* of NOT_INTEREST_WORDS.  A string the code only copies (a marker, a      *)
(* directory name, an href) is a one-element sequence.                     *)
(***************************************************************************)
EXTENDS Integers, Sequences, FiniteSets, TLC

VARIABLES
    pc,          \* position in the module-level code (lines 168-196)
    driver,      \* the global name `driver`: "unbound", "open" or "quit"
    exc,         \* the exception caught by `except Exception as e`, or "none"
    escaped,     \* the exception that leaves the module, or "none"
    url_list,    \* the set returned by get_urls()
    todo,        \* the members of url_list the for loop has not reached yet
    news_dicts,  \* the dict of line 184, in insertion order: <<title, content>>
    fs,          \* the files under outputs/<date>/: path -> content
    log,         \* the warning and error records of the log file
    navigated,   \* every URL passed to driver.get, in order
    fetched,     \* one record per get_article call: url, page, outcome, and
                 \* news_dicts before and after the iteration
    rankingWait, \* outcome of the waits of get_anchors: "none", "ok", "timeout"
    preexisting, \* fs as it was when the run started
    arg,         \* the argument a function is applied to (function harnesses)
    ret,         \* what it returned
    called       \* whether it has been applied

vars == <<pc, driver, exc, escaped, url_list, todo, news_dicts, fs, log,
          navigated, fetched, rankingWait, preexisting, arg, ret, called>>

runVars == <<pc, driver, exc, escaped, url_list, todo, news_dicts, fs, log,
             navigated, fetched, rankingWait, preexisting>>

-----------------------------------------------------------------------------
(* Bounds of the model *)

\* longest string given to convert_punctuation
MaxLen == 3
\* most anchors in the section of one ranking page
MaxAnchors == 2
\* most class-bearing elements on one article page
MaxElems == 2

-----------------------------------------------------------------------------
(* Characters and constants of the program *)

TOUTEN == "TOUTEN"
KUTEN == "KUTEN"
LF == "LF"
EKI == "EKI"
DEN == "DEN"

NHK_BASE_URL == <<"https://www3.nhk.or.jp">>
NHK_ACCESS_RANKING_URL == NHK_BASE_URL \o <<"/news/ranking/access.html">>
NHK_SOCIAL_RANKING_URL == NHK_BASE_URL \o <<"/news/ranking/social.html">>
NOT_INTEREST_WORDS == << <<EKI, DEN>> >>
OUTPUT_BASE_DIRECTORY == <<"outputs/">>

Range(s) == {s[i] : i \in DOMAIN s}

SeqsUpTo(S, n) == UNION {[1..k -> S] : k \in 0..n}

-----------------------------------------------------------------------------
(* convert_punctuation: re.sub('([、。])', '\\1\n', value) *)

\* a replacement that forgets the group reference: '\n' alone
PunctuationReplNoGroup(c) == <<LF>>

\* the replacement '\\1\n' : the matched character, then a newline
PunctuationRepl(c) == <<c, LF>>

\* re.sub with the one-character class [、。]: left to right, every match
\* replaced, every other character copied
RECURSIVE ReSub(_)
ReSub(value) ==
    IF value = <<>> THEN <<>>
    ELSE IF Head(value) \in {TOUTEN, KUTEN}
         THEN PunctuationRepl(Head(value)) \o ReSub(Tail(value))
         ELSE <<Head(value)>> \o ReSub(Tail(value))

convert_punctuation(value) == ReSub(value)

-----------------------------------------------------------------------------
(* Ranking pages: get_anchors, is_include_not_interest, get_urls *)

\* `word in text` for strings
IsSubstring(word, text) ==
    \E i \in 1..(Len(text) - Len(word) + 1) :
        SubSeq(text, i, i + Len(word) - 1) = word

\* the test asks for the whole text to be the word, == for in
is_include_not_interest_equal(anchor) ==
    \E k \in DOMAIN NOT_INTEREST_WORDS : anchor.em = NOT_INTEREST_WORDS[k]

\* any(word in anchor.find("em").text for word in NOT_INTEREST_WORDS);
\* the anchor has an em element (see AnchorsHaveEm)
is_include_not_interest(anchor) ==
    \E k \in DOMAIN NOT_INTEREST_WORDS :
        IsSubstring(NOT_INTEREST_WORDS[k], anchor.em)

\* a get_anchors that swallows the timeout and answers with no anchors
get_anchors_recovering(page) ==
    IF ~page.em THEN [exc |-> "none", ret |-> <<>>]
    ELSE IF ~page.section THEN [exc |-> "AttributeError", ret |-> <<>>]
    ELSE [exc |-> "none", ret |-> page.anchors]

\* get_anchors on the page the browser renders for ranking_url.
\*   page.em      : an em element appears within the 20 seconds of the wait
\*   page.section : the markup has a <section class="content--items">
\*   page.anchors : the a elements of that section, in document order
get_anchors(page) ==
    IF ~page.em THEN [exc |-> "TimeoutException", ret |-> <<>>]
    ELSE IF ~page.section THEN [exc |-> "AttributeError", ret |-> <<>>]
    ELSE [exc |-> "none", ret |-> page.anchors]

\* itertools.filterfalse(pred, list), as a list
RECURSIVE FilterFalseInterest(_)
FilterFalseInterest(anchors) ==
    IF anchors = <<>> THEN <<>>
    ELSE IF is_include_not_interest(Head(anchors))
         THEN FilterFalseInterest(Tail(anchors))
         ELSE <<Head(anchors)>> \o FilterFalseInterest(Tail(anchors))

\* the lambda of lines 77 and 82
AnchorUrl(anchor) == NHK_BASE_URL \o anchor.href

AnchorsHaveEm(anchors) == \A i \in DOMAIN anchors : anchors[i].hasEm

\* the social ranking alone is kept
UrlSetSocialOnly(access_anchor_list, social_anchor_list) ==
    LET social == FilterFalseInterest(social_anchor_list)
    IN  {AnchorUrl(social[i]) : i \in DOMAIN social}

\* lines 75-86: set(list(map(...access...)) + list(map(...social...)))
UrlSet(access_anchor_list, social_anchor_list) ==
    LET access == FilterFalseInterest(access_anchor_list)
        social == FilterFalseInterest(social_anchor_list)
        urls   == [i \in DOMAIN access |-> AnchorUrl(access[i])]
                  \o [i \in DOMAIN social |-> AnchorUrl(social[i])]
    IN  Range(urls)

\* get_urls: the social ranking is fetched first, then the access ranking.
\* The result records the exception that leaves get_urls (or "none"), the
\* returned set, the pages navigated to and whether a wait of get_anchors
\* ran out of its 20 seconds ("timeout") or every wait made was met ("ok").
get_urls(socialPage, accessPage) ==
    LET social == get_anchors(socialPage)
        access == get_anchors(accessPage)
        nav1   == <<NHK_SOCIAL_RANKING_URL>>
        nav2   == <<NHK_SOCIAL_RANKING_URL, NHK_ACCESS_RANKING_URL>>
        wait1  == IF socialPage.em THEN "ok" ELSE "timeout"
        wait2  == IF socialPage.em /\ accessPage.em THEN "ok" ELSE "timeout"
        failed(e, nav, w) ==
            [exc |-> e, ret |-> {}, navigated |-> nav, wait |-> w]
    IN  IF social.exc # "none" THEN failed(social.exc, nav1, wait1)
        ELSE IF access.exc # "none" THEN failed(access.exc, nav2, wait2)
        ELSE IF ~AnchorsHaveEm(access.ret) \/ ~AnchorsHaveEm(social.ret)
        THEN \* anchor.find("em") is None: None has no attribute text
             failed("AttributeError", nav2, wait2)
        ELSE [exc |-> "none",
              ret |-> UrlSet(access.ret, social.ret),
              navigated |-> nav2, wait |-> wait2]

-----------------------------------------------------------------------------
(* Article pages: get_article *)

\* An article page as rendered within the 10 seconds of the wait:
\*   page.h1    : [present, text] the first h1 element
\*   page.elems : the elements that carry a class attribute, in document
\*                order, each [class |-> list of class names, text |-> string]

HasClass(elem, names) == \E i \in DOMAIN elem.class : elem.class[i] \in names

\* EC.presence_of_element_located(locator): a function object
presence_of_element_located(by, value) == [by |-> by, value |-> value]

\* bool() of a function object
Truthy(obj) == TRUE

\* Python's `a and b` and `a or b` on objects: an operand is returned
PyAnd(a, b) == IF Truthy(a) THEN b ELSE a
PyOr(a, b) == IF Truthy(a) THEN a ELSE b

\* the argument of wait.until, lines 103-108
WaitCondition ==
    PyAnd(presence_of_element_located("tag name", "h1"),
          PyOr(presence_of_element_located("class name", "content--summary"),
               presence_of_element_located("class name", "body-title")))

\* whether the condition finds its element on the page
Located(cond, page) ==
    IF cond.by = "tag name"
    THEN cond.value = "h1" /\ page.h1.present
    ELSE \E i \in DOMAIN page.elems : HasClass(page.elems[i], {cond.value})

TITLE_MARK == <<"~~title~~">>
SUMMARY_MARK == <<"~~summary~~">>
BODY_MARK == <<"~~body~~">>

\* re.sub('\n', '', text)
RECURSIVE RemoveNewlines(_)
RemoveNewlines(text) ==
    IF text = <<>> THEN <<>>
    ELSE IF Head(text) = LF THEN RemoveNewlines(Tail(text))
         ELSE <<Head(text)>> \o RemoveNewlines(Tail(text))

\* '\n'.join(contexts)
RECURSIVE JoinLines(_)
JoinLines(contexts) ==
    IF contexts = <<>> THEN <<>>
    ELSE IF Len(contexts) = 1 THEN contexts[1]
         ELSE contexts[1] \o <<LF>> \o JoinLines(Tail(contexts))

\* soup.find_all(class_=names): the elements with one of the classes
RECURSIVE FindAllClass(_, _)
FindAllClass(elems, names) ==
    IF elems = <<>> THEN <<>>
    ELSE IF HasClass(Head(elems), names)
         THEN <<Head(elems)>> \o FindAllClass(Tail(elems), names)
         ELSE FindAllClass(Tail(elems), names)

\* lines 135-139: the match statement on detail_content['class']; a sequence
\* pattern of one element matches a list of exactly that one element
MatchDetail(detail_content) ==
    IF detail_content.class = <<"body-title">>
    THEN <<convert_punctuation(detail_content.text)>>
    ELSE IF detail_content.class = <<"body-text">>
    THEN <<convert_punctuation(detail_content.text)>>
    ELSE <<>>

RECURSIVE DetailContexts(_)
DetailContexts(detail_contents) ==
    IF detail_contents = <<>> THEN <<>>
    ELSE MatchDetail(Head(detail_contents))
         \o DetailContexts(Tail(detail_contents))

\* lines 120-141, after a wait that was met
ExtractArticle(page) ==
    LET title == RemoveNewlines(page.h1.text)
        summary_contents ==
            FindAllClass(page.elems,
                         {"content--summary", "content--summary-more"})
        detail_contents ==
            FindAllClass(page.elems, {"body-title", "body-text"})
        contexts ==
            <<TITLE_MARK, title, SUMMARY_MARK>>
            \o [i \in DOMAIN summary_contents |->
                    convert_punctuation(summary_contents[i].text)]
            \o <<BODY_MARK>>
            \o DetailContexts(detail_contents)
    IN  << <<title, JoinLines(contexts)>> >>

\* a get_article without the try/except around the wait
get_article_uncaught(page) ==
    IF ~Located(WaitCondition, page)
    THEN [exc |-> "TimeoutException", wait |-> "timeout", ret |-> <<>>]
    ELSE IF ~page.h1.present
    THEN [exc |-> "AttributeError", wait |-> "ok", ret |-> <<>>]
    ELSE [exc |-> "none", wait |-> "ok", ret |-> ExtractArticle(page)]

\* get_article on the page the browser renders for target_url: the exception
\* that leaves it (or "none"), the outcome of the wait, and the return value:
\* [] after a timeout, the one-entry dict {title: content} otherwise, here as
\* the list of its <<key, value>> pairs
get_article(page) ==
    IF ~Located(WaitCondition, page)
    THEN [exc |-> "none", wait |-> "timeout", ret |-> <<>>]
    ELSE IF ~page.h1.present
    THEN \* soup.find("h1") is None: None has no attribute text
         [exc |-> "AttributeError", wait |-> "ok", ret |-> <<>>]
    ELSE [exc |-> "none", wait |-> "ok", ret |-> ExtractArticle(page)]

\* dict.update(pairs): a present key keeps its place and takes the new value,
\* a new key is appended
RECURSIVE DictUpdate(_, _)
DictUpdate(d, pairs) ==
    IF pairs = <<>> THEN d
    ELSE LET k == pairs[1][1]
             v == pairs[1][2]
             d1 == IF \E i \in DOMAIN d : d[i][1] = k
                   THEN [i \in DOMAIN d |->
                            IF d[i][1] = k THEN <<k, v>> ELSE d[i]]
                   ELSE Append(d, <<k, v>>)
         IN  DictUpdate(d1, Tail(pairs))

-----------------------------------------------------------------------------
(* Files: convert_text *)

\* datetime.now().strftime('%Y%m%d'), one value for the run
DATE == <<"20260101">>

Digits == <<"0", "1", "2", "3", "4", "5", "6", "7", "8", "9">>

\* str(n) for n >= 0
RECURSIVE Str(_)
Str(n) == IF n < 10 THEN <<Digits[n + 1]>>
          ELSE Str(n \div 10) \o <<Digits[(n % 10) + 1]>>

\* line 153
FilePath(index, title) ==
    OUTPUT_BASE_DIRECTORY \o DATE \o <<"/">> \o Str(index + 1) \o <<"_">>
    \o title \o <<".txt">>

\* open(file_path, mode='w'): an existing file is truncated and rewritten
OpenTruncate(files, file_path, content) ==
    [p \in DOMAIN files \cup {file_path} |->
        IF p = file_path THEN content ELSE files[p]]

\* lines 156-162: open(file_path, mode='x') and write; FileExistsError is
\* caught and the file left as it is
OpenExclusive(files, file_path, content) ==
    IF file_path \in DOMAIN files THEN files
    ELSE [p \in DOMAIN files \cup {file_path} |->
            IF p = file_path THEN content ELSE files[p]]

\* the for loop of convert_text from index on; the operating system refuses
\* the open of entry number failAt (an OSError other than FileExistsError),
\* failAt = 0 when it refuses none
RECURSIVE WriteItems(_, _, _, _)
WriteItems(items, index, files, failAt) ==
    IF index >= Len(items) THEN [exc |-> "none", fs |-> files]
    ELSE IF index + 1 = failAt THEN [exc |-> "OSError", fs |-> files]
    ELSE WriteItems(items, index + 1,
                    OpenExclusive(files,
                                  FilePath(index, items[index + 1][1]),
                                  items[index + 1][2]),
                    failAt)

convert_text(news_dict_list, files, failAt) ==
    WriteItems(news_dict_list, 0, files, failAt)

-----------------------------------------------------------------------------
(* Inputs *)

Anchor(hasEm, em, href) == [hasEm |-> hasEm, em |-> em, href |-> href]

Href1 == <<"/news/html/1.html">>
Href2 == <<"/news/html/2.html">>

\* em texts: one that contains the keyword, one with its two characters
\* reversed, one with them apart
EmTexts == {<<"x", EKI, DEN>>, <<DEN, EKI>>, <<EKI, "x", DEN>>}

Anchors == {Anchor(TRUE, t, h) : t \in EmTexts, h \in {Href1, Href2}}

RankingPage(em, section, anchors) ==
    [em |-> em, section |-> section, anchors |-> anchors]

\* ranking pages for get_urls alone: up to MaxAnchors anchors, and the three
\* pages on which get_anchors or the filter fails
RankingPages ==
    {RankingPage(TRUE, TRUE, a) : a \in SeqsUpTo(Anchors, MaxAnchors)}
    \cup {RankingPage(FALSE, TRUE, <<>>),
          RankingPage(TRUE, FALSE, <<>>),
          RankingPage(TRUE, TRUE, <<Anchor(FALSE, <<>>, Href1)>>)}

\* ranking pages of a run
RunRankingPages ==
    {RankingPage(TRUE, TRUE, a) :
        a \in {<<>>,
               <<Anchor(TRUE, <<"x">>, Href1)>>,
               <<Anchor(TRUE, <<"x", EKI, DEN>>, Href2)>>,
               <<Anchor(TRUE, <<"x">>, Href1), Anchor(TRUE, <<"y">>, Href2)>>}}
    \cup {RankingPage(FALSE, TRUE, <<>>), RankingPage(TRUE, FALSE, <<>>)}

Elem(class, text) == [class |-> class, text |-> text]

ArticlePage(present, h1, elems) ==
    [h1 |-> [present |-> present, text |-> h1], elems |-> elems]

ElemClasses ==
    {<<"content--summary">>, <<"content--summary-more">>, <<"body-title">>,
     <<"body-text">>, <<"body-text", "more">>, <<"caption">>}

ElemTexts == {<<"x">>, <<"x", KUTEN, "y">>}

Elems == {Elem(c, t) : c \in ElemClasses, t \in ElemTexts}

\* article pages for get_article alone: up to MaxElems classed elements
ArticlePages ==
    {ArticlePage(TRUE, h, e) :
        h \in {<<"a">>, <<"a", LF, "b">>}, e \in SeqsUpTo(Elems, MaxElems)}
    \cup {ArticlePage(FALSE, <<>>, e) : e \in SeqsUpTo(Elems, MaxElems)}

\* article pages of a run
RunArticlePages ==
    {ArticlePage(TRUE, h, e) :
        h \in {<<"a">>, <<"a", LF>>, <<"b">>},
        e \in {<<>>,
               <<Elem(<<"content--summary">>, <<"x", KUTEN>>)>>,
               <<Elem(<<"body-title">>, <<"x">>)>>,
               <<Elem(<<"content--summary">>, <<"y">>),
                 Elem(<<"body-text">>, <<"x", TOUTEN, "y">>)>>}}
    \cup {ArticlePage(FALSE, <<>>, <<>>),
          ArticlePage(FALSE, <<>>,
                      <<Elem(<<"content--summary">>, <<"x", KUTEN>>)>>)}

OLD_CONTENT == <<"written by an earlier run">>

\* the files an earlier run of the same day may have left
RunPreexisting ==
    LET paths == {FilePath(0, <<"a">>), FilePath(1, <<"b">>)}
    IN  {[p \in P |-> OLD_CONTENT] : P \in SUBSET paths}

Chars == {TOUTEN, KUTEN, LF, "x"}

-----------------------------------------------------------------------------
(* The run: lines 164-196 *)

NoCall == arg = <<>> /\ ret = <<>> /\ called = FALSE

Init ==
    /\ pc = "session"
    /\ driver = "unbound"
    /\ exc = "none"
    /\ escaped = "none"
    /\ url_list = {}
    /\ todo = {}
    /\ news_dicts = <<>>
    /\ fs \in RunPreexisting
    /\ preexisting = fs
    /\ log = <<>>
    /\ navigated = <<>>
    /\ fetched = <<>>
    /\ rankingWait = "none"
    /\ NoCall

\* an exception raised inside the try block: control goes to the handler
Raise(e) == exc' = e /\ pc' = "except"

\* lines 170-178: webdriver.Remote(...) binds `driver`, or raises when the
\* Selenium server cannot be reached
CreateSession ==
    /\ pc = "session"
    /\ \/ /\ driver' = "open"
          /\ pc' = "get_urls"
          /\ exc' = exc
       \/ /\ Raise("WebDriverException")
          /\ driver' = driver
    /\ UNCHANGED <<escaped, url_list, todo, news_dicts, fs, log, navigated,
                   fetched, rankingWait, preexisting, arg, ret, called>>

\* lines 181 and 184: url_list = get_urls(); news_dicts = {}
GetUrls ==
    /\ pc = "get_urls"
    /\ \E socialPage \in RunRankingPages, accessPage \in RunRankingPages :
          LET r == get_urls(socialPage, accessPage)
          IN  /\ navigated' = navigated \o r.navigated
              /\ rankingWait' = r.wait
              /\ IF r.exc = "none"
                 THEN /\ url_list' = r.ret
                      /\ todo' = r.ret
                      /\ pc' = "loop"
                      /\ exc' = exc
                 ELSE /\ Raise(r.exc)
                      /\ UNCHANGED <<url_list, todo>>
    /\ UNCHANGED <<driver, escaped, news_dicts, fs, log, fetched,
                   preexisting, arg, ret, called>>

\* lines 185-186: one iteration, news_dicts.update(get_article(url)); a set
\* is iterated in an order the language does not fix
GetArticle ==
    /\ pc = "loop"
    /\ todo # {}
    /\ \E url \in todo, page \in RunArticlePages :
          LET r == get_article(page)
          IN  /\ navigated' = Append(navigated, url)
              /\ log' = IF r.wait = "timeout"
                        THEN Append(log, <<"WARNING", url>>)
                        ELSE log
              /\ IF r.exc = "none"
                 THEN /\ news_dicts' = DictUpdate(news_dicts, r.ret)
                      /\ todo' = todo \ {url}
                      /\ UNCHANGED <<pc, exc>>
                 ELSE /\ Raise(r.exc)
                      /\ UNCHANGED <<news_dicts, todo>>
              /\ fetched' = Append(fetched,
                                   [url |-> url, page |-> page,
                                    wait |-> r.wait, exc |-> r.exc,
                                    ret |-> r.ret,
                                    newsBefore |-> news_dicts,
                                    newsAfter |-> news_dicts'])
    /\ UNCHANGED <<driver, escaped, url_list, fs, rankingWait, preexisting,
                   arg, ret, called>>

\* line 189: convert_text(news_dicts), after the loop
ConvertText ==
    /\ pc = "loop"
    /\ todo = {}
    /\ \E failAt \in 0..Len(news_dicts) :
          LET r == convert_text(news_dicts, fs, failAt)
          IN  /\ fs' = r.fs
              /\ IF r.exc = "none"
                 THEN pc' = "finally" /\ exc' = exc
                 ELSE Raise(r.exc)
    /\ UNCHANGED <<driver, escaped, url_list, todo, news_dicts, log,
                   navigated, fetched, rankingWait, preexisting,
                   arg, ret, called>>

\* lines 191-192: except Exception as e: logging.error(...)
Except ==
    /\ pc = "except"
    /\ log' = Append(log, <<"ERROR", exc>>)
    /\ pc' = "finally"
    /\ UNCHANGED <<driver, exc, escaped, url_list, todo, news_dicts, fs,
                   navigated, fetched, rankingWait, preexisting,
                   arg, ret, called>>

\* lines 193-196: finally: driver.quit(); the name `driver` is unbound when
\* webdriver.Remote raised, and looking it up raises NameError
Finally ==
    /\ pc = "finally"
    /\ pc' = "done"
    /\ IF driver = "unbound"
       THEN escaped' = "NameError" /\ driver' = driver
       ELSE driver' = "quit" /\ escaped' = escaped
    /\ UNCHANGED <<exc, url_list, todo, news_dicts, fs, log, navigated,
                   fetched, rankingWait, preexisting, arg, ret, called>>

Next ==
    \/ CreateSession
    \/ GetUrls
    \/ GetArticle
    \/ ConvertText
    \/ Except
    \/ Finally

Spec == Init /\ [][Next]_vars

-----------------------------------------------------------------------------
(* The functions on their own *)

NoRun ==
    /\ pc = "call"
    /\ driver = "unbound"
    /\ exc = "none"
    /\ escaped = "none"
    /\ url_list = {}
    /\ todo = {}
    /\ news_dicts = <<>>
    /\ fs = <<>>
    /\ preexisting = <<>>
    /\ log = <<>>
    /\ navigated = <<>>
    /\ fetched = <<>>
    /\ rankingWait = "none"

InitPunct ==
    /\ NoRun
    /\ arg \in SeqsUpTo(Chars, MaxLen)
    /\ ret = <<>>
    /\ called = FALSE

CallConvertPunctuation ==
    /\ ~called
    /\ ret' = convert_punctuation(arg)
    /\ called' = TRUE
    /\ UNCHANGED <<runVars, arg>>

SpecPunct == InitPunct /\ [][CallConvertPunctuation]_vars

InitUrls ==
    /\ NoRun
    /\ arg \in [social : RankingPages, access : RankingPages]
    /\ ret = <<>>
    /\ called = FALSE

CallGetUrls ==
    /\ ~called
    /\ ret' = get_urls(arg.social, arg.access)
    /\ called' = TRUE
    /\ UNCHANGED <<runVars, arg>>

SpecUrls == InitUrls /\ [][CallGetUrls]_vars

InitArticle ==
    /\ NoRun
    /\ arg \in ArticlePages
    /\ ret = <<>>
    /\ called = FALSE

CallGetArticle ==
    /\ ~called
    /\ ret' = get_article(arg)
    /\ called' = TRUE
    /\ UNCHANGED <<runVars, arg>>

SpecArticle == InitArticle /\ [][CallGetArticle]_vars

-----------------------------------------------------------------------------
(* Properties *)

IsPunctuation(c) == c \in {TOUTEN, KUTEN}

\* the text has the keyword's two characters next to each other, in order
ContainsKeyword(text) ==
    \E i \in 1..(Len(text) - 1) : text[i] = EKI /\ text[i + 1] = DEN

RankingUrls == {NHK_SOCIAL_RANKING_URL, NHK_ACCESS_RANKING_URL}

\* the anchors of both ranking pages of a get_urls call
CallAnchors == Range(arg.social.anchors) \cup Range(arg.access.anchors)

AcceptedAnchors == {a \in CallAnchors : ~ContainsKeyword(a.em)}

\* C1: when the run has ended, on whatever path, the session has been quit
\* and no exception has left the top-level handler.
C1_SessionQuitOnEveryExit ==
    pc = "done" => (driver = "quit" /\ escaped = "none")

\* C2: the wait of get_article is met exactly when the page has an h1 and
\* also a content--summary element or a body-title element.
C2_WaitIsTitleAndSummaryOrHeading ==
    called =>
        (ret.wait = "ok" <=>
            /\ arg.h1.present
            /\ \E i \in DOMAIN arg.elems :
                  HasClass(arg.elems[i], {"content--summary", "body-title"}))

\* C3: an article wait that times out yields the empty result and raises
\* nothing; the iteration leaves news_dicts as it was and the loop goes on
\* while URLs remain; a run that reaches its end without an exception has
\* fetched every URL of the set, and every accumulated article is in its file.
C3_ArticleTimeoutSkipsOnlyThatArticle ==
    /\ \A i \in DOMAIN fetched :
          fetched[i].wait = "timeout" =>
              /\ fetched[i].ret = <<>>
              /\ fetched[i].exc = "none"
              /\ fetched[i].newsAfter = fetched[i].newsBefore
    /\ (fetched # <<>> /\ fetched[Len(fetched)].wait = "timeout")
          => (exc # "TimeoutException" /\ (todo # {} => pc = "loop"))
    /\ (pc \in {"finally", "done"} /\ exc = "none") =>
          /\ {fetched[i].url : i \in DOMAIN fetched} = url_list
          /\ \A k \in DOMAIN news_dicts :
                LET path == FilePath(k - 1, news_dicts[k][1])
                IN  /\ path \in DOMAIN fs
                    /\ path \notin DOMAIN preexisting
                          => fs[path] = news_dicts[k][2]

\* a timeout, then an article fetched and written to its file
C3_Witness ==
    /\ pc = "done"
    /\ exc = "none"
    /\ Len(fetched) = 2
    /\ fetched[1].wait = "timeout"
    /\ fetched[2].wait = "ok"
    /\ Len(news_dicts) = 1
    /\ FilePath(0, news_dicts[1][1]) \notin DOMAIN preexisting
    /\ fs[FilePath(0, news_dicts[1][1])] = news_dicts[1][2]

\* C4 as claimed: the URL of an anchor whose em text contains the keyword
\* is not in the set get_urls returns.
C4_KeywordAnchorUrlNotInResult ==
    (called /\ ret.exc = "none") =>
        \A a \in CallAnchors :
            ContainsKeyword(a.em) => AnchorUrl(a) \notin ret.ret

\* C4 amended: the URL of an anchor whose em text contains the keyword is in
\* the returned set only when another anchor of the two pages has the same
\* href and an em text without the keyword.
C4_KeywordAnchorsContributeNothing ==
    (called /\ ret.exc = "none") =>
        \A a \in CallAnchors :
            (ContainsKeyword(a.em) /\ AnchorUrl(a) \in ret.ret) =>
                \E b \in CallAnchors :
                    b.href = a.href /\ ~ContainsKeyword(b.em)

\* a keyword anchor is dropped while another anchor is kept
C4_Witness ==
    /\ called
    /\ ret.exc = "none"
    /\ ret.ret # {}
    /\ \E a \in CallAnchors :
          ContainsKeyword(a.em) /\ AnchorUrl(a) \notin ret.ret

\* C5: the returned set is exactly the base URL followed by the href of each
\* accepted anchor of either page, one member for each distinct href.
C5_ResultIsAcceptedUrlsOnce ==
    (called /\ ret.exc = "none") =>
        /\ \A a \in AcceptedAnchors : NHK_BASE_URL \o a.href \in ret.ret
        /\ \A u \in ret.ret :
              \E a \in AcceptedAnchors : u = NHK_BASE_URL \o a.href
        /\ Cardinality(ret.ret) = Cardinality({a.href : a \in AcceptedAnchors})

\* the same href is accepted from both ranking pages, another from one
C5_Witness ==
    /\ called
    /\ ret.exc = "none"
    /\ Cardinality(ret.ret) = 2
    /\ \E i \in DOMAIN arg.social.anchors, j \in DOMAIN arg.access.anchors :
          /\ arg.social.anchors[i].href = arg.access.anchors[j].href
          /\ ~ContainsKeyword(arg.social.anchors[i].em)
          /\ ~ContainsKeyword(arg.access.anchors[j].em)

\* the characters of the input before position i that are punctuation
PunctuationBefore(value, i) ==
    Cardinality({j \in 1..(i - 1) : IsPunctuation(value[j])})

\* the text without the character that follows each punctuation character
RECURSIVE RemoveInserted(_)
RemoveInserted(text) ==
    IF text = <<>> THEN <<>>
    ELSE IF IsPunctuation(Head(text)) /\ Len(text) >= 2
         THEN <<Head(text)>> \o RemoveInserted(Tail(Tail(text)))
         ELSE <<Head(text)>> \o RemoveInserted(Tail(text))

\* C6: in the output of convert_punctuation every character of the input
\* stands in its order, moved right by one place for each punctuation
\* character before it; a newline follows every punctuation character; and
\* taking the inserted newlines out gives the input back.
C6_PunctuationBreakKeepsInput ==
    called =>
        /\ Len(ret) = Len(arg) + PunctuationBefore(arg, Len(arg) + 1)
        /\ \A i \in DOMAIN arg :
              LET o == i + PunctuationBefore(arg, i)
              IN  /\ ret[o] = arg[i]
                  /\ IsPunctuation(arg[i]) => ret[o + 1] = LF
        /\ RemoveInserted(ret) = arg

\* an input with a punctuation character and a newline of its own
C6_Witness ==
    /\ called
    /\ \E i \in DOMAIN arg : IsPunctuation(arg[i])
    /\ \E i \in DOMAIN arg : arg[i] = LF
    /\ Len(ret) > Len(arg)

\* C7: a file that existed keeps its content, FileExistsError is never
\* raised to the run, every article of a convert_text that returned is in a
\* file at its path, with its content where the path was free, and every new
\* file holds the article of its path.
C7_WriteOnce ==
    /\ \A p \in DOMAIN preexisting :
          p \in DOMAIN fs /\ fs[p] = preexisting[p]
    /\ exc # "FileExistsError"
    /\ (pc \in {"finally", "done"} /\ exc = "none") =>
          \A k \in DOMAIN news_dicts :
              LET path == FilePath(k - 1, news_dicts[k][1])
              IN  /\ path \in DOMAIN fs
                  /\ path \notin DOMAIN preexisting
                        => fs[path] = news_dicts[k][2]
    /\ \A p \in (DOMAIN fs) \ (DOMAIN preexisting) :
          \E k \in DOMAIN news_dicts :
              /\ p = FilePath(k - 1, news_dicts[k][1])
              /\ fs[p] = news_dicts[k][2]

\* the first article's path exists and is skipped, the second is written
C7_Witness ==
    /\ pc = "done"
    /\ exc = "none"
    /\ Len(news_dicts) = 2
    /\ FilePath(0, news_dicts[1][1]) \in DOMAIN preexisting
    /\ fs[FilePath(0, news_dicts[1][1])] = OLD_CONTENT
    /\ FilePath(1, news_dicts[2][1]) \notin DOMAIN preexisting
    /\ fs[FilePath(1, news_dicts[2][1])] = news_dicts[2][2]

\* C8: after a wait of get_anchors has timed out the run is in its handler
\* with the TimeoutException, no article page has been navigated to, no file
\* has been written, the exception is logged as an error, and the run ends
\* with the session quit and nothing escaping.
C8_RankingTimeoutIsFatal ==
    rankingWait = "timeout" =>
        /\ pc \in {"except", "finally", "done"}
        /\ exc = "TimeoutException"
        /\ fetched = <<>>
        /\ Range(navigated) \subseteq RankingUrls
        /\ fs = preexisting
        /\ pc \in {"finally", "done"}
              => <<"ERROR", "TimeoutException">> \in Range(log)
        /\ pc = "done" => (driver = "quit" /\ escaped = "none")

\* the access ranking times out after the social ranking was read
C8_Witness ==
    /\ pc = "done"
    /\ rankingWait = "timeout"
    /\ navigated = <<NHK_SOCIAL_RANKING_URL, NHK_ACCESS_RANKING_URL>>
    /\ driver = "quit"

\* C9: the content of a fetched article is the title marker, the title, the
\* summary marker, the summary entries, the body marker and one entry for
\* every element with class body-title or body-text, in document order,
\* joined by newlines.
C9_EveryBodyElementContributes ==
    (called /\ ret.wait = "ok" /\ ret.exc = "none") =>
        LET summaries ==
                FindAllClass(arg.elems,
                             {"content--summary", "content--summary-more"})
            details == FindAllClass(arg.elems, {"body-title", "body-text"})
        IN  ret.ret[1][2] =
                JoinLines(<<TITLE_MARK, ret.ret[1][1], SUMMARY_MARK>>
                          \o [i \in DOMAIN summaries |->
                                 convert_punctuation(summaries[i].text)]
                          \o <<BODY_MARK>>
                          \o [i \in DOMAIN details |->
                                 convert_punctuation(details[i].text)])

\* C10: a run that started with no output file and ended without an
\* exception has written as many files as get_article returned records, and
\* the content of each record is the content of exactly one file.
C10_OneFilePerFetchedArticle ==
    (pc = "done" /\ exc = "none" /\ escaped = "none"
     /\ DOMAIN preexisting = {}) =>
        LET records == {i \in DOMAIN fetched : fetched[i].ret # <<>>}
        IN  /\ Cardinality(DOMAIN fs) = Cardinality(records)
            /\ \A i \in records :
                  Cardinality({p \in DOMAIN fs :
                                  fs[p] = fetched[i].ret[1][2]}) = 1

====
